---- MODULE Spec2Model ----
(***************************************************************************)
(* Task hierarchy engine of Archon's task tree view.                       *)
(*                                                                         *)
(*   lib/task-tree-utils.ts : buildTaskTree, flattenTaskTree,              *)
(*                            getDescendantIds, canBeParent,               *)
(*                            getAvailableParents                          *)
(*   useTaskHierarchy       : parentMap, childrenMap and their queries     *)
(*   TaskTreeView           : expandedIds, statusFilter, taskTree,         *)
(*                            displayTasks, toggleExpand, setStatusFilter  *)
(*                                                                         *)
(* A task is a record [id, parent_task_id, task_order].  The functions     *)
(* compare ids only for equality, so the i-th task of the input sequence   *)
(* is given the id i: every collection with unique ids is a renaming of    *)
(* one of these, and every relative position of a task, its parent and     *)
(* its grandparent in the input sequence occurs.                           *)
(*                                                                         *)
(* TaskNode objects are JavaScript references.  The forest is modelled as  *)
(* the object graph the code builds: `nodes` maps an id to its TaskNode    *)
(* (whose children field lists the ids of the referenced nodes) and        *)
(* `roots` is the returned rootTasks array.                                *)
(***************************************************************************)
EXTENDS Integers, Sequences, FiniteSets, TLC

VARIABLES
    tasks,          \* the flat collection (the view's tasks prop)
    expandedIds,    \* TaskTreeView state
    taskTree,       \* TaskTreeView useMemo: the forest
    displayTasks,   \* TaskTreeView useMemo: the flattened forest
    statusOf,       \* the status field of each task, by task id
    statusFilter,   \* TaskTreeView state
    walk,           \* the ancestor or descendant walk that is running, step by step
    requests        \* re-parentings validated by canBeParent and not yet applied

vars == <<tasks, expandedIds, taskTree, displayTasks, statusOf, statusFilter, walk, requests>>

(* ------------------------------ bounds -------------------------------- *)

\* largest number of tasks in the collection
MaxTasks == 3

\* task_order values are drawn from 1..MaxOrder
MaxOrder == 2

(* ------------------------------ data ---------------------------------- *)

\* absent parent_task_id (undefined / null: falsy in `if (task.parent_task_id)`)
Null == 0

\* an id that names no task of the collection (dangling reference)
Ghost == MaxTasks + 1

Range(s) == {s[i] : i \in 1..Len(s)}

TaskIds(ts) == {ts[i].id : i \in 1..Len(ts)}

\* Task interface: id, parent_task_id?, task_order
Task(n) == [id : 1..n, parent_task_id : {Null, Ghost} \cup (1..n), task_order : 1..MaxOrder]

\* the task with the given id (ids are unique)
TaskOf(ts, id) == ts[CHOOSE i \in 1..Len(ts) : ts[i].id = id]

\* the parent of id: the task its parent reference names, Null when the
\* reference is absent or names no task (or id itself names no task)
ParentOf(ts, id) ==
    LET named == IF \E i \in 1..Len(ts) : ts[i].id = id
                 THEN TaskOf(ts, id).parent_task_id
                 ELSE Null
    IN IF \E i \in 1..Len(ts) : ts[i].id = named THEN named ELSE Null

\* ids reached from id by following parent references 1..k times
RECURSIVE Up(_, _, _)
Up(ts, id, k) ==
    LET parent == ParentOf(ts, id)
    IN IF k = 0 \/ parent = Null THEN {}
       ELSE {parent} \cup Up(ts, parent, k - 1)

\* proper ancestors of id (the chain ends at a root or a dangling reference)
Ancestors(ts, id) == Up(ts, id, Len(ts))

\* no task is its own ancestor
Acyclic(ts) == \A id \in TaskIds(ts) : id \notin Ancestors(ts, id)

\* tasks that have id as a proper ancestor
Descendants(ts, id) == {d \in TaskIds(ts) : id \in Ancestors(ts, d)}

\* the collection with the parent reference of taskId set to parentId
SetParent(ts, taskId, parentId) ==
    [i \in 1..Len(ts) |->
        IF ts[i].id = taskId THEN [ts[i] EXCEPT !.parent_task_id = parentId] ELSE ts[i]]

\* collections of n tasks, the i-th task carrying id i
Collections(n) ==
    {ts \in [1..n -> Task(n)] : \A i \in 1..n : ts[i].id = i}

AcyclicCollections ==
    UNION {{ts \in Collections(n) : Acyclic(ts)} : n \in 0..MaxTasks}

(* --------------------------- buildTaskTree ---------------------------- *)

\* first pass: one TaskNode per task, children [], isExpanded true, depth 0
FirstPass(ts) ==
    [id \in TaskIds(ts) |->
        LET task == TaskOf(ts, id)
        IN [id |-> id,
            parent_task_id |-> task.parent_task_id,
            task_order |-> task.task_order,
            children |-> <<>>,
            isExpanded |-> TRUE,
            depth |-> 0]]

\* as AttachTask, but a task with a parent is pushed to the root list as well
AttachTaskAlsoRoot(st, task) ==
    IF task.parent_task_id # Null /\ task.parent_task_id \in DOMAIN st.taskMap
    THEN LET pushed == [st.taskMap EXCEPT
                           ![task.parent_task_id].children = Append(@, task.id)]
         IN [st EXCEPT !.taskMap = [pushed EXCEPT
                           ![task.id].depth = pushed[task.parent_task_id].depth + 1],
                       !.rootTasks = Append(st.rootTasks, task.id)]
    ELSE [st EXCEPT !.rootTasks = Append(st.rootTasks, task.id)]

\* as AttachTask, but a task whose parent is not found is not pushed anywhere
AttachTaskDropOrphan(st, task) ==
    IF task.parent_task_id # Null
    THEN IF task.parent_task_id \in DOMAIN st.taskMap
         THEN LET pushed == [st.taskMap EXCEPT
                                ![task.parent_task_id].children = Append(@, task.id)]
              IN [st EXCEPT !.taskMap = [pushed EXCEPT
                                ![task.id].depth = pushed[task.parent_task_id].depth + 1]]
         ELSE st
    ELSE [st EXCEPT !.rootTasks = Append(st.rootTasks, task.id)]

\* as AttachTask, but a task that names itself as parent is pushed to the root list
AttachTaskSelfAsRoot(st, task) ==
    IF task.parent_task_id # Null /\ task.parent_task_id # task.id
    THEN IF task.parent_task_id \in DOMAIN st.taskMap
         THEN LET pushed == [st.taskMap EXCEPT
                                ![task.parent_task_id].children = Append(@, task.id)]
              IN [st EXCEPT !.taskMap = [pushed EXCEPT
                                ![task.id].depth = pushed[task.parent_task_id].depth + 1]]
         ELSE [st EXCEPT !.rootTasks = Append(st.rootTasks, task.id)]
    ELSE [st EXCEPT !.rootTasks = Append(st.rootTasks, task.id)]

\* as AttachTask, but the depth is assigned to the input task (task.depth = ...)
\* instead of its node
AttachTaskWritesInput(st, task) ==
    IF task.parent_task_id # Null
    THEN IF task.parent_task_id \in DOMAIN st.taskMap
         THEN LET pushed == [st.taskMap EXCEPT
                                ![task.parent_task_id].children = Append(@, task.id)]
                  i == CHOOSE k \in 1..Len(st.tasks) : st.tasks[k].id = task.id
                  written == [f \in DOMAIN st.tasks[i] \cup {"depth"} |->
                                 IF f = "depth" THEN pushed[task.parent_task_id].depth + 1
                                 ELSE st.tasks[i][f]]
              IN [st EXCEPT !.taskMap = pushed, !.tasks[i] = written]
         ELSE [st EXCEPT !.rootTasks = Append(st.rootTasks, task.id)]
    ELSE [st EXCEPT !.rootTasks = Append(st.rootTasks, task.id)]

\* second pass, one iteration of tasks.forEach for the input task `task`.  st
\* holds what the call has allocated (taskMap, rootTasks) and the input array
\* as the caller holds it (tasks), which the iteration only reads.
AttachTask(st, task) ==
    IF task.parent_task_id # Null
    THEN IF task.parent_task_id \in DOMAIN st.taskMap
         THEN LET pushed == [st.taskMap EXCEPT
                                ![task.parent_task_id].children = Append(@, task.id)]
              IN [st EXCEPT !.taskMap = [pushed EXCEPT
                                ![task.id].depth = pushed[task.parent_task_id].depth + 1]]
         ELSE [st EXCEPT !.rootTasks = Append(st.rootTasks, task.id)]
    ELSE [st EXCEPT !.rootTasks = Append(st.rootTasks, task.id)]

RECURSIVE SecondPass(_, _, _)
SecondPass(ts, i, st) ==
    IF i > Len(ts) THEN st
    ELSE SecondPass(ts, i + 1, AttachTask(st, st.tasks[i]))

\* Array.prototype.sort with (a, b) => a.task_order - b.task_order (stable)
RECURSIVE InsertByOrder(_, _, _)
InsertByOrder(map, s, x) ==
    IF s = <<>> THEN <<x>>
    ELSE IF map[s[Len(s)]].task_order - map[x].task_order <= 0
         THEN Append(s, x)
         ELSE Append(InsertByOrder(map, SubSeq(s, 1, Len(s) - 1), x), s[Len(s)])

RECURSIVE SortByOrder(_, _)
SortByOrder(map, s) ==
    IF s = <<>> THEN <<>>
    ELSE InsertByOrder(map, SortByOrder(map, SubSeq(s, 1, Len(s) - 1)), s[Len(s)])

\* as sortChildren, without the recursion into node.children
sortChildrenRootsOnly(map, nodes, i) == map

\* sortChildren(nodes) after nodes.sort: nodes.forEach(node => sortChildren(node.children))
RECURSIVE sortChildren(_, _, _)
sortChildren(map, nodes, i) ==
    IF i > Len(nodes) THEN map
    ELSE LET sorted == [map EXCEPT ![nodes[i]].children = SortByOrder(map, @)]
             below == sortChildren(sorted, sorted[nodes[i]].children, 1)
         IN sortChildren(below, nodes, i + 1)

\* the two passes: taskMap and rootTasks are allocated by the call, tasks is the argument
BuildPasses(ts) ==
    SecondPass(ts, 1, [taskMap |-> FirstPass(ts), rootTasks |-> <<>>, tasks |-> ts])

buildTaskTree(ts) ==
    LET built == BuildPasses(ts)
        roots == SortByOrder(built.taskMap, built.rootTasks)
    IN [roots |-> roots, nodes |-> sortChildren(built.taskMap, roots, 1)]

\* the tasks argument as the caller holds it after the call (sortChildren sorts
\* rootTasks and the children arrays, which the call allocated)
InputAfterBuild(ts) == BuildPasses(ts).tasks

(* -------------------------- flattenTaskTree --------------------------- *)

\* The TaskNode objects of the forest are shared with the caller, so traverse
\* is modelled with the object graph it runs on: it yields the emitted
\* sequence (result) and the graph as the call leaves it (nodes).

\* as traverse, but the children are visited after the remaining siblings
RECURSIVE traverseSiblingsFirst(_, _, _, _, _)
traverseSiblingsFirst(forestNodes, expanded, nodes, i, depth) ==
    IF i > Len(nodes) THEN [result |-> <<>>, nodes |-> forestNodes]
    ELSE LET node == forestNodes[nodes[i]]
             nodeWithDepth == [node EXCEPT !.depth = depth]
             rest == traverseSiblingsFirst(forestNodes, expanded, nodes, i + 1, depth)
             below == IF nodes[i] \in expanded \/ node.isExpanded
                      THEN traverseSiblingsFirst(rest.nodes, expanded, node.children, 1, depth + 1)
                      ELSE [result |-> <<>>, nodes |-> rest.nodes]
         IN [result |-> <<nodeWithDepth>> \o rest.result \o below.result,
             nodes |-> below.nodes]

\* as traverse, but the emitted copy keeps the depth stored on the forest node
RECURSIVE traverseStoredDepth(_, _, _, _, _)
traverseStoredDepth(forestNodes, expanded, nodes, i, depth) ==
    IF i > Len(nodes) THEN [result |-> <<>>, nodes |-> forestNodes]
    ELSE LET node == forestNodes[nodes[i]]
             below == IF nodes[i] \in expanded \/ node.isExpanded
                      THEN traverseStoredDepth(forestNodes, expanded, node.children, 1, depth + 1)
                      ELSE [result |-> <<>>, nodes |-> forestNodes]
             rest == traverseStoredDepth(below.nodes, expanded, nodes, i + 1, depth)
         IN [result |-> <<node>> \o below.result \o rest.result,
             nodes |-> rest.nodes]

\* as traverse, but depth is assigned to the forest node itself, which is pushed
\* (node.depth = depth; result.push(node)) instead of a copy
RECURSIVE traverseInPlace(_, _, _, _, _)
traverseInPlace(forestNodes, expanded, nodes, i, depth) ==
    IF i > Len(nodes) THEN [result |-> <<>>, nodes |-> forestNodes]
    ELSE LET written == [forestNodes EXCEPT ![nodes[i]].depth = depth]
             node == written[nodes[i]]
             below == IF nodes[i] \in expanded \/ node.isExpanded
                      THEN traverseInPlace(written, expanded, node.children, 1, depth + 1)
                      ELSE [result |-> <<>>, nodes |-> written]
             rest == traverseInPlace(below.nodes, expanded, nodes, i + 1, depth)
         IN [result |-> <<node>> \o below.result \o rest.result,
             nodes |-> rest.nodes]

\* as traverse, but a node is entered only when its id is in the expanded set
\* and its own flag is set (&& in place of ||)
RECURSIVE traverseBothRequired(_, _, _, _, _)
traverseBothRequired(forestNodes, expanded, nodes, i, depth) ==
    IF i > Len(nodes) THEN [result |-> <<>>, nodes |-> forestNodes]
    ELSE LET node == forestNodes[nodes[i]]
             nodeWithDepth == [node EXCEPT !.depth = depth]
             below == IF nodes[i] \in expanded /\ node.isExpanded
                      THEN traverseBothRequired(forestNodes, expanded, node.children, 1, depth + 1)
                      ELSE [result |-> <<>>, nodes |-> forestNodes]
             rest == traverseBothRequired(below.nodes, expanded, nodes, i + 1, depth)
         IN [result |-> <<nodeWithDepth>> \o below.result \o rest.result,
             nodes |-> rest.nodes]

\* traverse(nodes, depth), from the node nodes[i] on
RECURSIVE traverse(_, _, _, _, _)
traverse(forestNodes, expanded, nodes, i, depth) ==
    IF i > Len(nodes) THEN [result |-> <<>>, nodes |-> forestNodes]
    ELSE LET node == forestNodes[nodes[i]]
             nodeWithDepth == [node EXCEPT !.depth = depth]
             below == IF nodes[i] \in expanded \/ node.isExpanded
                      THEN traverse(forestNodes, expanded, node.children, 1, depth + 1)
                      ELSE [result |-> <<>>, nodes |-> forestNodes]
             rest == traverse(below.nodes, expanded, nodes, i + 1, depth)
         IN [result |-> <<nodeWithDepth>> \o below.result \o rest.result,
             nodes |-> rest.nodes]

\* the returned array
flattenTaskTree(forest, expanded) ==
    traverse(forest.nodes, expanded, forest.roots, 1, 0).result

\* the forest argument as the caller holds it after the call
ForestAfterFlatten(forest, expanded) ==
    [roots |-> forest.roots,
     nodes |-> traverse(forest.nodes, expanded, forest.roots, 1, 0).nodes]

(* ----------------------- getDescendantIds / canBeParent --------------- *)

\* as findDescendants, without the recursive call: direct children only
RECURSIVE findDescendantsDirectOnly(_, _, _)
findDescendantsDirectOnly(ts, parentId, i) ==
    IF i > Len(ts) THEN <<>>
    ELSE (IF ts[i].parent_task_id = parentId THEN <<ts[i].id>> ELSE <<>>)
         \o findDescendantsDirectOnly(ts, parentId, i + 1)

\* findDescendants(parentId), from the task ts[i] on
RECURSIVE findDescendants(_, _, _)
findDescendants(ts, parentId, i) ==
    IF i > Len(ts) THEN <<>>
    ELSE (IF ts[i].parent_task_id = parentId
          THEN <<ts[i].id>> \o findDescendants(ts, ts[i].id, 1)
          ELSE <<>>)
         \o findDescendants(ts, parentId, i + 1)

\* as getDescendantIds, but the start id is pushed as well
getDescendantIdsWithSelf(taskId, ts) == <<taskId>> \o findDescendants(ts, taskId, 1)

getDescendantIds(taskId, ts) == findDescendants(ts, taskId, 1)

\* as canBeParent, without the check that the two ids differ
canBeParentNoSelfCheck(taskId, potentialParentId, ts) ==
    potentialParentId \notin Range(getDescendantIds(taskId, ts))

canBeParent(taskId, potentialParentId, ts) ==
    IF taskId = potentialParentId THEN FALSE
    ELSE potentialParentId \notin Range(getDescendantIds(taskId, ts))

\* tasks.filter(pred), the tasks from ts[i] on; kept is the set of the
\* positions whose task satisfies pred
RECURSIVE FilterTasks(_, _, _)
FilterTasks(ts, kept, i) ==
    IF i > Len(ts) THEN <<>>
    ELSE (IF i \in kept THEN <<ts[i]>> ELSE <<>>) \o FilterTasks(ts, kept, i + 1)

\* as getAvailableParents, but only the task itself is filtered out
getAvailableParentsSelfOnly(taskId, ts) ==
    IF taskId = Null THEN ts
    ELSE FilterTasks(ts, {i \in 1..Len(ts) : ts[i].id # taskId}, 1)

\* taskId is Null for a new task (`!taskId`)
getAvailableParents(taskId, ts) ==
    IF taskId = Null THEN ts
    ELSE FilterTasks(ts,
             {i \in 1..Len(ts) : ts[i].id # taskId /\ canBeParent(taskId, ts[i].id, ts)}, 1)

(* ------------------------------ getRootParent ------------------------- *)

\* as RootLoop, but the walk stops one step short: at the parent of the start task
RootLoopOneStep(ts, currentTask) ==
    IF currentTask.parent_task_id # Null /\ currentTask.parent_task_id \in TaskIds(ts)
    THEN TaskOf(ts, currentTask.parent_task_id)
    ELSE currentTask

\* the while loop of getRootParent, from currentTask on
RECURSIVE RootLoop(_, _)
RootLoop(ts, currentTask) ==
    IF currentTask.parent_task_id # Null
    THEN IF currentTask.parent_task_id \notin TaskIds(ts)
         THEN currentTask
         ELSE RootLoop(ts, TaskOf(ts, currentTask.parent_task_id))
    ELSE currentTask

\* Null for the returned null
getRootParent(taskId, ts) ==
    IF taskId \notin TaskIds(ts) THEN Null
    ELSE RootLoop(ts, TaskOf(ts, taskId))

(* --------------------------- useTaskHierarchy ------------------------- *)

\* Map.get(key), Null for undefined
MapGet(map, key) == IF key \in DOMAIN map THEN map[key] ELSE Null

\* childrenMap.get(key) || []
ChildrenGet(map, key) == IF key \in DOMAIN map THEN map[key] ELSE <<>>

\* as IndexTask, but the children entry is set to the task alone
\* (childrenMap.set(parent, [task.id])), dropping the siblings indexed before
IndexTaskOverwrite(maps, task) ==
    IF task.parent_task_id # Null
    THEN [parentMap |-> (task.id :> task.parent_task_id) @@ maps.parentMap,
          childrenMap |-> (task.parent_task_id :> <<task.id>>) @@ maps.childrenMap]
    ELSE maps

\* one iteration of tasks.forEach: parentMap.set and the push onto siblings
IndexTask(maps, task) ==
    IF task.parent_task_id # Null
    THEN [parentMap |-> (task.id :> task.parent_task_id) @@ maps.parentMap,
          childrenMap |->
              (task.parent_task_id :>
                  Append(ChildrenGet(maps.childrenMap, task.parent_task_id), task.id))
              @@ maps.childrenMap]
    ELSE maps

RECURSIVE IndexPass(_, _, _)
IndexPass(ts, i, maps) ==
    IF i > Len(ts) THEN maps
    ELSE IndexPass(ts, i + 1, IndexTask(maps, ts[i]))

\* the two maps of the hook; the queries below take them as h
useTaskHierarchy(ts) == IndexPass(ts, 1, [parentMap |-> <<>>, childrenMap |-> <<>>])

\* as getDescendantCount, without the recursive call: direct children only
getDescendantCountDirectOnly(h, taskId) == Len(ChildrenGet(h.childrenMap, taskId))

\* as getDescendantCount, but every child is counted again when it is visited
RECURSIVE getDescendantCountTwice(_, _)
getDescendantCountTwice(h, taskId) ==
    LET children == ChildrenGet(h.childrenMap, taskId)
        sum[i \in 0..Len(children)] ==
            IF i = 0 THEN Len(children)
            ELSE sum[i - 1] + 1 + getDescendantCountTwice(h, children[i])
    IN sum[Len(children)]

\* count = children.length, then count += getDescendantCount(childId) per child
RECURSIVE getDescendantCount(_, _)
getDescendantCount(h, taskId) ==
    LET children == ChildrenGet(h.childrenMap, taskId)
        sum[i \in 0..Len(children)] ==
            IF i = 0 THEN Len(children)
            ELSE sum[i - 1] + getDescendantCount(h, children[i])
    IN sum[Len(children)]

\* the while loop of getAncestors, from currentId on
RECURSIVE AncestorLoop(_, _)
AncestorLoop(h, currentId) ==
    IF currentId = Null THEN <<>>
    ELSE <<currentId>> \o AncestorLoop(h, MapGet(h.parentMap, currentId))

\* as getAncestors, but the walk starts at the task itself
getAncestorsFromSelf(h, taskId) == AncestorLoop(h, taskId)

getAncestors(h, taskId) == AncestorLoop(h, MapGet(h.parentMap, taskId))

isRoot(h, taskId) == taskId \notin DOMAIN h.parentMap

isLeaf(h, taskId) == taskId \notin DOMAIN h.childrenMap

getDepth(h, taskId) == Len(getAncestors(h, taskId))

hasChildren(h, taskId) == taskId \in DOMAIN h.childrenMap

getChildren(h, taskId) == ChildrenGet(h.childrenMap, taskId)

getParent(h, taskId) == MapGet(h.parentMap, taskId)

\* tasks.filter(task => !task.parent_task_id)
rootTasks(ts) ==
    FilterTasks(ts, {i \in 1..Len(ts) : ts[i].parent_task_id = Null}, 1)

\* tasks.filter(task => !childrenMap.has(task.id))
leafTasks(h, ts) ==
    FilterTasks(ts, {i \in 1..Len(ts) : ts[i].id \notin DOMAIN h.childrenMap}, 1)

(* ----------------------------- TaskTreeView --------------------------- *)

\* useState initializer: the ids of the tasks that some task names as parent
InitialExpanded(ts) ==
    {ts[i].id : i \in {j \in 1..Len(ts) : \E k \in 1..Len(ts) : ts[k].parent_task_id = ts[j].id}}

\* no walk is running
NoWalk == [kind |-> "none"]

\* no re-parenting is waiting between validation and mutation
NoRequests == [snapshot |-> <<>>, accepted |-> {}, applied |-> {}]

\* Task.status: 'backlog' | 'in-progress' | 'review' | 'complete'.  The filters
\* tell 'complete' from the rest only, so one of the other values stands for them.
Statuses == {"backlog", "complete"}

\* the values the filter buttons set
Filters == {"all", "active", "complete"}

\* as filteredTasks, but the filter is not applied
filteredTasksUnfiltered(ts, so, filter) == ts

\* filteredTasks useMemo; so gives the status field of each task
filteredTasks(ts, so, filter) ==
    IF filter = "all" THEN ts
    ELSE IF filter = "active"
         THEN FilterTasks(ts, {i \in 1..Len(ts) :
                  so[ts[i].id] # "complete" /\ so[ts[i].id] # "done"}, 1)
         ELSE FilterTasks(ts, {i \in 1..Len(ts) : so[ts[i].id] = filter}, 1)

\* the collection ts after a call that was handed a filtered array of its task
\* objects and left them as `after`
MergeInput(ts, after) ==
    [i \in 1..Len(ts) |->
        IF \E k \in 1..Len(after) : after[k].id = ts[i].id
        THEN after[CHOOSE k \in 1..Len(after) : after[k].id = ts[i].id]
        ELSE ts[i]]

\* first render of the view mounted on the collection ts (statusFilter is
\* 'all', so filteredTasks is ts): taskTree holds the forest of the useMemo,
\* which the flattenTaskTree call has been handed
Mount(ts) ==
    LET forest == buildTaskTree(ts)
        expanded == InitialExpanded(ts)
    IN /\ tasks = InputAfterBuild(ts)
       /\ expandedIds = expanded
       /\ statusFilter = "all"
       /\ taskTree = ForestAfterFlatten(forest, expanded)
       /\ displayTasks = flattenTaskTree(forest, expanded)
       /\ walk = NoWalk
       /\ requests = NoRequests

\* the view is mounted on an acyclic collection; the status filter is left at
\* 'all' (FilterSpec below has the filter buttons)
Init ==
    \E ts \in AcyclicCollections :
        /\ Mount(ts)
        /\ statusOf = [id \in TaskIds(ts) |-> "backlog"]

\* the chevron button of a displayed row that has children; the state change re-renders
toggleExpand(taskId) ==
    /\ \E i \in 1..Len(displayTasks) :
          displayTasks[i].id = taskId /\ Len(displayTasks[i].children) > 0
    /\ expandedIds' = IF taskId \in expandedIds
                      THEN expandedIds \ {taskId}
                      ELSE expandedIds \cup {taskId}
    /\ UNCHANGED <<tasks, statusOf, statusFilter, walk, requests>>
    /\ displayTasks' = flattenTaskTree(taskTree, expandedIds')
    /\ taskTree' = ForestAfterFlatten(taskTree, expandedIds')

Next == \E taskId \in TaskIds(tasks) : toggleExpand(taskId)

Spec == Init /\ [][Next]_vars

\* The view is mounted on a collection whose parent references may be
\* malformed: dangling, pointing at the task itself, or forming a cycle.
InitMalformed ==
    \E ts \in UNION {Collections(n) : n \in 0..MaxTasks} :
        /\ Mount(ts)
        /\ statusOf = [id \in TaskIds(ts) |-> "backlog"]

MalformedSpec == InitMalformed /\ [][Next]_vars

\* The view with its status filter buttons, mounted on an acyclic collection
\* whose tasks have any status.
InitFilter ==
    \E ts \in AcyclicCollections :
        /\ Mount(ts)
        /\ statusOf \in [TaskIds(ts) -> Statuses]

\* a filter button: the state change re-renders, filteredTasks, taskTree and
\* displayTasks are recomputed (a click on the active filter changes nothing)
setStatusFilter(filter) ==
    /\ filter # statusFilter
    /\ statusFilter' = filter
    /\ LET filtered == filteredTasks(tasks, statusOf, filter)
           forest == buildTaskTree(filtered)
       IN /\ tasks' = MergeInput(tasks, InputAfterBuild(filtered))
          /\ taskTree' = ForestAfterFlatten(forest, expandedIds)
          /\ displayTasks' = flattenTaskTree(forest, expandedIds)
    /\ UNCHANGED <<expandedIds, statusOf, walk, requests>>

NextFilter ==
    \/ \E taskId \in TaskIds(tasks) : toggleExpand(taskId)
    \/ \E filter \in Filters : setStatusFilter(filter)

FilterSpec == InitFilter /\ [][NextFilter]_vars

(* ---------------------- re-parenting in the storage layer ------------- *)

NoForest == [roots |-> <<>>, nodes |-> <<>>]

\* tasks without a resolvable parent only
Flat(ts) == \A id \in TaskIds(ts) : ParentOf(ts, id) = Null

\* The collection as the storage layer holds it, no tree view mounted.  The
\* tasks start as roots (no parent reference, or a dangling one): every acyclic
\* collection is reached from one of these by accepted re-parentings, parents
\* before children, so the behaviours from any acyclic collection are covered.
InitStore ==
    /\ tasks \in {ts \in AcyclicCollections : Flat(ts)}
    /\ expandedIds = {}
    /\ taskTree = NoForest
    /\ displayTasks = <<>>
    /\ statusOf = [id \in TaskIds(tasks) |-> "backlog"]
    /\ statusFilter = "all"
    /\ walk = NoWalk
    /\ requests = NoRequests

\* a parent reference is changed only after canBeParent accepted it on the current collection
Reparent(taskId, parentId) ==
    /\ canBeParent(taskId, parentId, tasks)
    /\ tasks' = SetParent(tasks, taskId, parentId)
    /\ UNCHANGED <<expandedIds, taskTree, displayTasks, statusOf, statusFilter, walk, requests>>

NextStore ==
    \E taskId \in TaskIds(tasks), parentId \in TaskIds(tasks) : Reparent(taskId, parentId)

StoreSpec == InitStore /\ [][NextStore]_vars

(* ------------- re-parenting with validation apart from mutation ------ *)

\* re-parentings that may be in flight together
MaxRequests == 2

\* The collection as the storage layer holds it (acyclic), and the snapshot of
\* it that the callers of canBeParent hold.  canBeParent and the mutation read
\* ids and parent references only, so the tasks carry one task_order value.
InitRace ==
    /\ tasks \in {ts \in AcyclicCollections : \A i \in 1..Len(ts) : ts[i].task_order = MaxOrder}
    /\ expandedIds = {}
    /\ taskTree = NoForest
    /\ displayTasks = <<>>
    /\ statusOf = [id \in TaskIds(tasks) |-> "backlog"]
    /\ statusFilter = "all"
    /\ walk = NoWalk
    /\ requests = [snapshot |-> tasks, accepted |-> {}, applied |-> {}]

\* a caller asks canBeParent about its snapshot and, on true, keeps the
\* re-parenting to send it to the storage layer
Validate(taskId, parentId) ==
    /\ Cardinality(requests.accepted) < MaxRequests
    /\ canBeParent(taskId, parentId, requests.snapshot)
    /\ requests' = [requests EXCEPT !.accepted = @ \cup {<<taskId, parentId>>}]
    /\ UNCHANGED <<tasks, expandedIds, taskTree, displayTasks, statusOf, statusFilter, walk>>

\* the storage layer applies an accepted re-parenting; canBeParent is not asked again
Apply(taskId, parentId) ==
    /\ <<taskId, parentId>> \in requests.accepted \ requests.applied
    /\ tasks' = SetParent(tasks, taskId, parentId)
    /\ requests' = [requests EXCEPT !.applied = @ \cup {<<taskId, parentId>>}]
    /\ UNCHANGED <<expandedIds, taskTree, displayTasks, statusOf, statusFilter, walk>>

NextRace ==
    \E taskId \in TaskIds(tasks), parentId \in TaskIds(tasks) :
        \/ Validate(taskId, parentId)
        \/ Apply(taskId, parentId)

RaceSpec == InitRace /\ [][NextRace]_vars

(* ------------------- the walks, one loop iteration at a time ---------- *)

\* The loops and recursions of getAncestors, getRootParent, getDescendantIds
\* and getDescendantCount as the engine runs them on a collection that nothing
\* has validated.  A walk on an acyclic collection visits at most MaxTasks + 1
\* ids (the start id and every task); the model follows a walk for one visit
\* more than that.
WalkLimit == MaxTasks + 2

\* the ids the running walk has visited, in order: the ancestors array of
\* getAncestors, the descendants array of getDescendantIds, and for the other
\* two walks the ids they have stood at (trace)
Visited(w) ==
    IF w.kind = "getAncestors" THEN w.ancestors
    ELSE IF w.kind = "getDescendantIds" THEN w.descendants
    ELSE IF w.kind \in {"getRootParent", "getDescendantCount"} THEN w.trace
    ELSE <<>>

InitWalk ==
    /\ tasks \in UNION {Collections(n) : n \in 0..MaxTasks}
    /\ expandedIds = {}
    /\ taskTree = NoForest
    /\ displayTasks = <<>>
    /\ statusOf = [id \in TaskIds(tasks) |-> "backlog"]
    /\ statusFilter = "all"
    /\ walk = NoWalk
    /\ requests = NoRequests

\* getAncestors(taskId) up to the loop: ancestors = [], currentId = parentMap.get(taskId)
getAncestorsCall(taskId) ==
    /\ walk.kind = "none"
    /\ walk' = [kind |-> "getAncestors", done |-> FALSE, ancestors |-> <<>>,
                currentId |-> MapGet(useTaskHierarchy(tasks).parentMap, taskId)]
    /\ UNCHANGED <<tasks, expandedIds, taskTree, displayTasks, statusOf, statusFilter, requests>>

\* the loop test `while (currentId)` and one run of the loop body
getAncestorsStep ==
    /\ walk.kind = "getAncestors" /\ ~walk.done
    /\ Len(walk.ancestors) < WalkLimit
    /\ walk' = IF walk.currentId = Null
               THEN [walk EXCEPT !.done = TRUE]
               ELSE [walk EXCEPT !.ancestors = Append(@, walk.currentId),
                                 !.currentId = MapGet(useTaskHierarchy(tasks).parentMap,
                                                      walk.currentId)]
    /\ UNCHANGED <<tasks, expandedIds, taskTree, displayTasks, statusOf, statusFilter, requests>>

\* getRootParent(taskId, tasks) up to the loop: currentTask = taskMap.get(taskId),
\* `return null` when there is none
getRootParentCall(taskId) ==
    /\ walk.kind = "none"
    /\ walk' = IF taskId \in TaskIds(tasks)
               THEN [kind |-> "getRootParent", done |-> FALSE,
                     currentTask |-> taskId, trace |-> <<taskId>>]
               ELSE [kind |-> "getRootParent", done |-> TRUE,
                     currentTask |-> Null, trace |-> <<>>]
    /\ UNCHANGED <<tasks, expandedIds, taskTree, displayTasks, statusOf, statusFilter, requests>>

\* the loop test `while (currentTask.parent_task_id)` and one run of the loop body
getRootParentStep ==
    /\ walk.kind = "getRootParent" /\ ~walk.done
    /\ Len(walk.trace) < WalkLimit
    /\ LET parentId == TaskOf(tasks, walk.currentTask).parent_task_id
       IN walk' = IF parentId = Null \/ parentId \notin TaskIds(tasks)
                  THEN [walk EXCEPT !.done = TRUE]
                  ELSE [walk EXCEPT !.currentTask = parentId,
                                    !.trace = Append(@, parentId)]
    /\ UNCHANGED <<tasks, expandedIds, taskTree, displayTasks, statusOf, statusFilter, requests>>

\* getDescendantIds(taskId, tasks) up to findDescendants(taskId): the call
\* stack holds one frame per running findDescendants, with the position i of
\* its tasks.forEach
getDescendantIdsCall(taskId) ==
    /\ walk.kind = "none"
    /\ walk' = [kind |-> "getDescendantIds", done |-> FALSE, descendants |-> <<>>,
                stack |-> <<[parentId |-> taskId, i |-> 1]>>]
    /\ UNCHANGED <<tasks, expandedIds, taskTree, displayTasks, statusOf, statusFilter, requests>>

\* one iteration of the tasks.forEach of the innermost findDescendants, or its return
findDescendantsStep ==
    /\ walk.kind = "getDescendantIds" /\ ~walk.done
    /\ Len(walk.descendants) < WalkLimit
    /\ LET top == Len(walk.stack)
           frame == walk.stack[top]
       IN walk' =
            IF frame.i > Len(tasks)
            THEN IF top = 1
                 THEN [walk EXCEPT !.done = TRUE, !.stack = <<>>]
                 ELSE [walk EXCEPT !.stack = SubSeq(@, 1, top - 1)]
            ELSE IF tasks[frame.i].parent_task_id = frame.parentId
                 THEN [walk EXCEPT
                          !.descendants = Append(@, tasks[frame.i].id),
                          !.stack = Append([@ EXCEPT ![top].i = frame.i + 1],
                                           [parentId |-> tasks[frame.i].id, i |-> 1])]
                 ELSE [walk EXCEPT !.stack[top].i = frame.i + 1]
    /\ UNCHANGED <<tasks, expandedIds, taskTree, displayTasks, statusOf, statusFilter, requests>>

\* a frame of getDescendantCount(taskId): children, count = children.length,
\* and the position k of its children.forEach
CountFrame(taskId) ==
    [children |-> ChildrenGet(useTaskHierarchy(tasks).childrenMap, taskId),
     count |-> Len(ChildrenGet(useTaskHierarchy(tasks).childrenMap, taskId)),
     k |-> 1]

\* getDescendantCount(taskId) up to its children.forEach
getDescendantCountCall(taskId) ==
    /\ walk.kind = "none"
    /\ walk' = [kind |-> "getDescendantCount", done |-> FALSE, trace |-> <<taskId>>,
                stack |-> <<CountFrame(taskId)>>, count |-> 0]
    /\ UNCHANGED <<tasks, expandedIds, taskTree, displayTasks, statusOf, statusFilter, requests>>

\* one iteration of the children.forEach of the innermost getDescendantCount
\* (the recursive call is entered), or its `return count`, which the caller adds
getDescendantCountStep ==
    /\ walk.kind = "getDescendantCount" /\ ~walk.done
    /\ Len(walk.trace) < WalkLimit
    /\ LET top == Len(walk.stack)
           frame == walk.stack[top]
       IN walk' =
            IF frame.k > Len(frame.children)
            THEN IF top = 1
                 THEN [walk EXCEPT !.done = TRUE, !.stack = <<>>, !.count = frame.count]
                 ELSE [walk EXCEPT
                          !.stack = [SubSeq(@, 1, top - 1) EXCEPT
                                        ![top - 1].count = @ + frame.count]]
            ELSE [walk EXCEPT
                     !.trace = Append(@, frame.children[frame.k]),
                     !.stack = Append([@ EXCEPT ![top].k = frame.k + 1],
                                      CountFrame(frame.children[frame.k]))]
    /\ UNCHANGED <<tasks, expandedIds, taskTree, displayTasks, statusOf, statusFilter, requests>>

\* the finished call has returned to its caller
WalkReturn ==
    /\ walk.kind # "none" /\ walk.done
    /\ walk' = NoWalk
    /\ UNCHANGED <<tasks, expandedIds, taskTree, displayTasks, statusOf, statusFilter, requests>>

NextWalk ==
    \/ \E taskId \in TaskIds(tasks) \cup {Ghost} :
          \/ getAncestorsCall(taskId)
          \/ getRootParentCall(taskId)
          \/ getDescendantIdsCall(taskId)
          \/ getDescendantCountCall(taskId)
    \/ getAncestorsStep
    \/ getRootParentStep
    \/ findDescendantsStep
    \/ getDescendantCountStep
    \/ WalkReturn

WalkSpec == InitWalk /\ [][NextWalk]_vars

(* ------------------------------- claims ------------------------------- *)

\* ids a caller can name as the new parent: the tasks and an id of no task
CandidateIds == TaskIds(tasks) \cup {Ghost}

\* C1: canBeParent(a, b, tasks) is true exactly when a # b and setting a's
\* parent reference to b leaves the collection without a parent cycle; it
\* rejects a itself and every id of getDescendantIds(a), and accepts every
\* ancestor of a.
CanBeParentIffNoCycle ==
    \A a \in TaskIds(tasks), b \in CandidateIds :
        /\ canBeParent(a, b, tasks) <=> (a # b /\ Acyclic(SetParent(tasks, a, b)))
        /\ ~canBeParent(a, a, tasks)
        /\ b \in Range(getDescendantIds(a, tasks)) => ~canBeParent(a, b, tasks)
        /\ b \in Ancestors(tasks, a) => canBeParent(a, b, tasks)

\* a task with a grandchild is asked to move under it (rejected), and the
\* grandchild is asked to move under the task (an ancestor, accepted)
CanBeParentWitness ==
    \E a \in TaskIds(tasks), b \in TaskIds(tasks) :
        /\ ParentOf(tasks, b) # Null
        /\ ParentOf(tasks, ParentOf(tasks, b)) = a
        /\ ~canBeParent(a, b, tasks)
        /\ canBeParent(b, a, tasks)

\* C2: re-parentings that canBeParent accepted on the collection as it was
\* at that moment never leave a task that is its own ancestor.
ReparentKeepsAcyclic == Acyclic(tasks)

\* two accepted re-parentings have built a chain of three tasks
ReparentWitness ==
    \E c \in TaskIds(tasks) :
        /\ ParentOf(tasks, c) # Null
        /\ ParentOf(tasks, ParentOf(tasks, c)) # Null

(* ---- forest and display sequence, as the claims speak of them ---- *)

\* every node met when walking the list and, below each node, its children list
RECURSIVE Walk(_, _, _)
Walk(forestNodes, nodes, i) ==
    IF i > Len(nodes) THEN <<>>
    ELSE <<nodes[i]>>
         \o Walk(forestNodes, forestNodes[nodes[i]].children, 1)
         \o Walk(forestNodes, nodes, i + 1)

\* the ids of the forest's nodes, root list and nested children lists together
ForestIds(forest) == Walk(forest.nodes, forest.roots, 1)

Count(s, x) == Cardinality({i \in 1..Len(s) : s[i] = x})

\* the ids of a sequence of emitted nodes
IdsOf(flat) == [i \in 1..Len(flat) |-> flat[i].id]

\* position of id in a sequence of ids that holds it
Pos(s, id) == CHOOSE i \in 1..Len(s) : s[i] = id

\* the nodes whose children list holds id
HoldersOf(forest, id) ==
    {p \in DOMAIN forest.nodes : id \in Range(forest.nodes[p].children)}

OrderOf(id) == TaskOf(tasks, id).task_order

Ascending(s) == \A i \in 1..(Len(s) - 1) : OrderOf(s[i]) <= OrderOf(s[i + 1])

\* tasks whose parent reference names no task of the collection
DanglingIds(ts) ==
    {id \in TaskIds(ts) : TaskOf(ts, id).parent_task_id \notin TaskIds(ts) \cup {Null}}

\* C3: each task of the collection is exactly one node of the forest of
\* buildTaskTree (root list and nested children lists): none twice, none lost.
BuilderEveryTaskOnce ==
    /\ Len(ForestIds(taskTree)) = Len(tasks)
    /\ \A id \in TaskIds(tasks) : Count(ForestIds(taskTree), id) = 1

\* a forest with a node two levels below a root
BuilderEveryTaskOnceWitness ==
    \E id \in TaskIds(tasks) :
        /\ ParentOf(tasks, id) # Null
        /\ ParentOf(tasks, ParentOf(tasks, id)) # Null
        /\ Count(ForestIds(taskTree), id) = 1

\* C4: every node of the forest has depth 0 when it is in the root list and
\* its parent's depth + 1 otherwise, whatever the order of the input.
BuilderDepthCorrect ==
    /\ \A id \in TaskIds(tasks) :
        IF id \in Range(taskTree.roots)
        THEN taskTree.nodes[id].depth = 0
        ELSE \A p \in HoldersOf(taskTree, id) :
                taskTree.nodes[id].depth = taskTree.nodes[p].depth + 1
    /\ \A i \in 1..Len(displayTasks) :
          taskTree.nodes[displayTasks[i].id].depth = displayTasks[i].depth

\* C5: a task whose parent reference names no task is a root of depth 0 with
\* its children beneath it, and the forest is the one built when the task
\* has no parent reference at all.
DanglingParentIsRoot ==
    \A id \in DanglingIds(tasks) :
        /\ id \in Range(taskTree.roots)
        /\ taskTree.nodes[id].depth = 0
        /\ \A c \in TaskIds(tasks) :
              TaskOf(tasks, c).parent_task_id = id
                  => c \in Range(taskTree.nodes[id].children)
        /\ LET asRoot == buildTaskTree(SetParent(tasks, id, Null))
           IN /\ asRoot.roots = taskTree.roots
              /\ asRoot.nodes = [taskTree.nodes EXCEPT ![id].parent_task_id = Null]

\* a task with a dangling parent reference that has a child of its own
DanglingParentWitness ==
    \E id \in DanglingIds(tasks), c \in TaskIds(tasks) :
        /\ TaskOf(tasks, c).parent_task_id = id
        /\ id \in Range(taskTree.roots)
        /\ c \in Range(taskTree.nodes[id].children)

\* C6: the root list and every children list of the forest are ascending by
\* task_order.
SiblingsAscending ==
    /\ Ascending(taskTree.roots)
    /\ \A id \in TaskIds(tasks) : Ascending(taskTree.nodes[id].children)

\* two children of one node stand in the forest in the reverse of their
\* input order (spec scenario: P, C1 with order 2, C2 with order 1)
SiblingsAscendingWitness ==
    \E p \in TaskIds(tasks) :
        LET ch == taskTree.nodes[p].children
        IN \E i \in 1..Len(ch), j \in 1..Len(ch) :
              i < j /\ ch[i] > ch[j] /\ OrderOf(ch[i]) < OrderOf(ch[j])

\* flattenTaskTree(buildTaskTree(tasks), E) with E holding every task id
FullyExpanded == IdsOf(flattenTaskTree(taskTree, TaskIds(tasks)))

\* C7: with every id expanded the display sequence has length |T|, holds
\* every task once, every node before each of its descendants, and all
\* descendants of a node before that node's later siblings.
FullFlattenIsPreorder ==
    LET flat == FullyExpanded
    IN /\ Len(flat) = Len(tasks)
       /\ \A id \in TaskIds(tasks) : Count(flat, id) = 1
       /\ \A a \in TaskIds(tasks) : \A d \in Descendants(tasks, a) :
             Pos(flat, a) < Pos(flat, d)
       /\ \A a \in TaskIds(tasks), b \in TaskIds(tasks) :
             (a # b /\ ParentOf(tasks, a) = ParentOf(tasks, b) /\ Pos(flat, a) < Pos(flat, b))
                 => \A d \in Descendants(tasks, a) : Pos(flat, d) < Pos(flat, b)

\* a node with a child is followed by a later sibling: the child is emitted
\* between the two
FullFlattenWitness ==
    \E a \in TaskIds(tasks), b \in TaskIds(tasks), d \in TaskIds(tasks) :
        /\ a # b /\ ParentOf(tasks, a) = ParentOf(tasks, b)
        /\ ParentOf(tasks, d) = a
        /\ Pos(FullyExpanded, a) < Pos(FullyExpanded, d)
        /\ Pos(FullyExpanded, d) < Pos(FullyExpanded, b)

\* C8: with the empty expanded set the display sequence is exactly the root
\* list of the forest, in its (ascending) order, every node at depth 0.
EmptySetShowsRootsOnly ==
    LET flat == flattenTaskTree(taskTree, {})
    IN /\ Len(flat) = Len(taskTree.roots)
       /\ IdsOf(flat) = taskTree.roots
       /\ \A i \in 1..Len(flat) : flat[i].depth = 0

DisplayIds == Range(IdsOf(displayTasks))

\* C9: a node with children that is not in expandedIds has no descendant in
\* the display sequence; one that is in expandedIds, with all its ancestors,
\* has its children in the display sequence.
CollapsedHidesSubtree ==
    \A id \in TaskIds(tasks) :
        taskTree.nodes[id].children # <<>> =>
            /\ id \notin expandedIds => Descendants(tasks, id) \cap DisplayIds = {}
            /\ ({id} \cup Ancestors(tasks, id)) \subseteq expandedIds
                   => Range(taskTree.nodes[id].children) \subseteq DisplayIds

\* the forest with the isExpanded flag of every node cleared, as a caller of
\* flattenTaskTree may pass it (TaskNode.isExpanded is optional)
Unflagged(forest) ==
    [roots |-> forest.roots,
     nodes |-> [id \in DOMAIN forest.nodes |-> [forest.nodes[id] EXCEPT !.isExpanded = FALSE]]]

\* in the emitted sequence a root of the forest has depth 0 and any other node
\* the depth of the emitted copy of its parent plus 1
DepthFollowsTraversal(flat, forest) ==
    \A i \in 1..Len(flat) :
        IF flat[i].id \in Range(forest.roots)
        THEN flat[i].depth = 0
        ELSE \E j \in 1..(i - 1) :
                /\ flat[j].id \in HoldersOf(forest, flat[i].id)
                /\ flat[i].depth = flat[j].depth + 1

\* C10: every emitted node carries depth 0 when it is a root of the forest and
\* otherwise the depth of its parent's emitted copy plus 1, whatever depth the
\* forest node stores; checked on the display sequence and on the projection
\* of the same forest with the isExpanded flags cleared.
EmittedDepthFollowsTraversal ==
    /\ DepthFollowsTraversal(displayTasks, taskTree)
    /\ DepthFollowsTraversal(flattenTaskTree(Unflagged(taskTree), expandedIds),
                             Unflagged(taskTree))

\* a node is emitted two levels below a root although the forest node stores
\* another depth, after a toggle, while the projection of the unflagged
\* forest leaves part of the forest out
EmittedDepthWitness ==
    /\ \E i \in 1..Len(displayTasks) :
          /\ displayTasks[i].depth = 2
          /\ taskTree.nodes[displayTasks[i].id].depth # 2
    /\ expandedIds # InitialExpanded(tasks)
    /\ Len(flattenTaskTree(Unflagged(taskTree), expandedIds)) = 2

\* C11: flattenTaskTree leaves the forest it is given as it was: depth,
\* isExpanded, task fields and children of every node; the traversal depth
\* is written to the emitted copies only.
FlattenLeavesForest ==
    /\ taskTree = buildTaskTree(tasks)
    /\ ForestAfterFlatten(taskTree, expandedIds) = taskTree
    /\ ForestAfterFlatten(Unflagged(taskTree), expandedIds) = Unflagged(taskTree)

\* after a toggle, a node was emitted with a depth that differs from the one
\* its forest node stores, and the forest node still stores its own
FlattenLeavesForestWitness ==
    /\ expandedIds # InitialExpanded(tasks)
    /\ \E i \in 1..Len(displayTasks) :
          /\ displayTasks[i].depth = 2
          /\ taskTree.nodes[displayTasks[i].id].depth = 1

\* the tasks of ts whose id is in the set, in input order
RECURSIVE Restrict(_, _, _)
Restrict(ts, ids, i) ==
    IF i > Len(ts) THEN <<>>
    ELSE (IF ts[i].id \in ids THEN <<ts[i]>> ELSE <<>>) \o Restrict(ts, ids, i + 1)

\* C12: getAvailableParents without a task id returns every task; with the id
\* of a task it returns, in input order, exactly the tasks that are neither
\* the task nor one of its descendants, so its parent and ancestors are kept.
AvailableParentsExact ==
    /\ getAvailableParents(Null, tasks) = tasks
    /\ \A a \in TaskIds(tasks) :
          LET avail == getAvailableParents(a, tasks)
          IN /\ avail = Restrict(tasks, TaskIds(tasks) \ ({a} \cup Descendants(tasks, a)), 1)
             /\ Ancestors(tasks, a) \subseteq TaskIds(avail)
             /\ TaskIds(avail) \cap ({a} \cup Descendants(tasks, a)) = {}

\* a task with a parent and a child: the parent is offered, the child is not
AvailableParentsWitness ==
    \E a \in TaskIds(tasks), c \in TaskIds(tasks) :
        /\ ParentOf(tasks, a) # Null
        /\ ParentOf(tasks, c) = a
        /\ ParentOf(tasks, a) \in TaskIds(getAvailableParents(a, tasks))
        /\ c \notin TaskIds(getAvailableParents(a, tasks))

(* ---- Hierarchy Index, as the claims speak of it ---- *)

\* the hook's maps for the current collection
hierarchy == useTaskHierarchy(tasks)

\* an id that no task has and no task references
Unknown == MaxTasks + 2

\* the ids a query can be asked about
QueryIds == TaskIds(tasks) \cup {Ghost, Unknown}

\* the parent reference as written on the task, Null when absent or when id names no task
RawParent(ts, id) == IF id \in TaskIds(ts) THEN TaskOf(ts, id).parent_task_id ELSE Null

\* ids reached from id by following the written parent references 1..k times
RECURSIVE RawUp(_, _, _)
RawUp(ts, id, k) ==
    LET parent == RawParent(ts, id)
    IN IF k = 0 \/ parent = Null THEN {}
       ELSE {parent} \cup RawUp(ts, parent, k - 1)

\* tasks whose chain of written parent references passes through id
RawDescendants(ts, id) == {d \in TaskIds(ts) : id \in RawUp(ts, d, Len(ts))}

NoDuplicates(s) == \A i \in 1..Len(s), j \in 1..Len(s) : s[i] = s[j] => i = j

\* C13: for every task, getDepth equals the length of getAncestors and the
\* depth field of the task's node in the forest of buildTaskTree.
IndexDepthIsBuilderDepth ==
    \A id \in TaskIds(tasks) :
        /\ getDepth(hierarchy, id) = Len(getAncestors(hierarchy, id))
        /\ getDepth(hierarchy, id) = taskTree.nodes[id].depth

\* C14: a task whose parent reference names no task is a root for the Index
\* (isRoot, rootTasks) as it is for buildTaskTree, and the two agree on the
\* set of roots.
IndexRootsAreBuilderRoots ==
    /\ \A id \in DanglingIds(tasks) :
          /\ isRoot(hierarchy, id)
          /\ id \in TaskIds(rootTasks(tasks))
          /\ id \in Range(taskTree.roots)
    /\ TaskIds(rootTasks(tasks)) = Range(taskTree.roots)
    /\ \A id \in TaskIds(tasks) : isRoot(hierarchy, id) <=> id \in Range(taskTree.roots)

\* C15: for an id that is the id of no task every query gives the empty
\* result: no parent, no children, no ancestors, depth 0, descendant count 0.
UnknownIdQueriesEmpty ==
    \A id \in {Ghost, Unknown} :
        /\ getParent(hierarchy, id) = Null
        /\ getChildren(hierarchy, id) = <<>>
        /\ ~hasChildren(hierarchy, id)
        /\ getAncestors(hierarchy, id) = <<>>
        /\ getDepth(hierarchy, id) = 0
        /\ getDescendantCount(hierarchy, id) = 0

\* C16: getAncestors returns the chain of written parent references, nearest
\* first, each id once, ending at the first id without a parent entry (a
\* task without parent reference, or the id a dangling reference names).
AncestorsAreParentChain ==
    \A id \in QueryIds :
        LET chain == getAncestors(hierarchy, id)
        IN /\ NoDuplicates(chain)
           /\ id \notin Range(chain)
           /\ Len(chain) <= Len(tasks)
           /\ (chain = <<>>) <=> (RawParent(tasks, id) = Null)
           /\ chain # <<>> =>
                 /\ chain[1] = RawParent(tasks, id)
                 /\ \A k \in 1..(Len(chain) - 1) : chain[k + 1] = RawParent(tasks, chain[k])
                 /\ RawParent(tasks, chain[Len(chain)]) = Null

\* a chain of two tasks above a task that ends in a dangling reference
AncestorsWitness ==
    \E id \in TaskIds(tasks) :
        LET chain == getAncestors(hierarchy, id)
        IN /\ Len(chain) = 3
           /\ chain[3] = Ghost
           /\ chain[2] = ParentOf(tasks, chain[1])

\* C17: getDescendantCount(id) is the number of tasks that have id as a
\* proper ancestor (along the written parent references; for the id of a
\* task these are its descendants), each counted once, 0 without children.
DescendantCountExact ==
    \A id \in QueryIds :
        /\ getDescendantCount(hierarchy, id) = Cardinality(RawDescendants(tasks, id))
        /\ id \in TaskIds(tasks) =>
              getDescendantCount(hierarchy, id) = Cardinality(Descendants(tasks, id))
        /\ (\A t \in TaskIds(tasks) : RawParent(tasks, t) # id) =>
              getDescendantCount(hierarchy, id) = 0

\* a task with a child and a grandchild has count 2, the grandchild count 0
DescendantCountWitness ==
    \E a \in TaskIds(tasks), c \in TaskIds(tasks) :
        /\ ParentOf(tasks, c) # Null
        /\ ParentOf(tasks, ParentOf(tasks, c)) = a
        /\ getDescendantCount(hierarchy, a) = 2
        /\ getDescendantCount(hierarchy, c) = 0

\* sum of getDescendantCount over a sequence of tasks
RECURSIVE SumDescendantCounts(_, _, _)
SumDescendantCounts(h, ts, i) ==
    IF i > Len(ts) THEN 0
    ELSE getDescendantCount(h, ts[i].id) + SumDescendantCounts(h, ts, i + 1)

\* C18: the descendant counts of the Index's rootTasks, plus the number of
\* those roots, add up to the number of tasks, dangling references or not.
RootCountsCoverCollection ==
    SumDescendantCounts(hierarchy, rootTasks(tasks), 1) + Len(rootTasks(tasks)) = Len(tasks)

\* C20: on an acyclic collection of n tasks the descendant walks end after at
\* most n recursive visits, each descendant visited once: getDescendantIds
\* lists no id twice and at most n ids, getDescendantCount (one unit per
\* recursive call) is at most n, and canBeParent and getAvailableParents,
\* which run the walk, return.
DescendantWalksBounded ==
    \A id \in QueryIds :
        /\ NoDuplicates(getDescendantIds(id, tasks))
        /\ Len(getDescendantIds(id, tasks)) <= Len(tasks)
        /\ getDescendantCount(hierarchy, id) <= Len(tasks)
        /\ \A p \in QueryIds : canBeParent(id, p, tasks) \in BOOLEAN
        /\ id \in TaskIds(tasks) => Len(getAvailableParents(id, tasks)) < Len(tasks)

\* every task but one is a descendant of that one (the walk makes n - 1
\* visits), and a walk from a dangling id visits all n tasks
DescendantWalksWitness ==
    /\ Len(tasks) >= 3
    /\ \E id \in TaskIds(tasks) :
          /\ Len(getDescendantIds(id, tasks)) = Len(tasks) - 1
          /\ getDescendantCount(hierarchy, id) = Len(tasks) - 1
          /\ Len(getDescendantIds(Ghost, tasks)) = Len(tasks)

\* C19: for malformed input (dangling, self-referencing or cyclic parent
\* references) every task of the input is still a node of the returned forest.
BuilderKeepsMalformedTasks ==
    \A id \in TaskIds(tasks) : Count(ForestIds(taskTree), id) >= 1

\* C21: every descendant and ancestor walk ends on every input, cyclic or
\* self-referencing parent references included, by stopping when it comes to
\* an id a second time: no walk visits an id a third time.
WalksStopAtRevisit ==
    \A id \in TaskIds(tasks) \cup {Ghost} : Count(Visited(walk), id) <= 2

\* C22: getChildren(id) lists exactly the tasks whose parent reference is
\* id, each once, ascending by task_order: the order of the children list of
\* id's node in the forest of buildTaskTree.
ChildrenInBuilderOrder ==
    \A id \in TaskIds(tasks) :
        LET children == getChildren(hierarchy, id)
        IN /\ NoDuplicates(children)
           /\ Range(children) = {c \in TaskIds(tasks) : RawParent(tasks, c) = id}
           /\ Ascending(children)
           /\ children = taskTree.nodes[id].children

\* C23: the two maps of the Index are paired: c is in childrenMap[p] exactly
\* when parentMap[c] = p; parentMap has an entry exactly for the tasks with a
\* parent reference, childrenMap exactly for the ids some task names as
\* parent; so hasChildren = not isLeaf = (getChildren is non-empty) for every id.
MapsPaired ==
    LET h == hierarchy
    IN /\ \A c \in QueryIds, p \in QueryIds :
             (p \in DOMAIN h.childrenMap /\ c \in Range(h.childrenMap[p]))
                 <=> (c \in DOMAIN h.parentMap /\ h.parentMap[c] = p)
       /\ DOMAIN h.parentMap = {c \in TaskIds(tasks) : RawParent(tasks, c) # Null}
       /\ DOMAIN h.childrenMap =
             {RawParent(tasks, c) : c \in {t \in TaskIds(tasks) : RawParent(tasks, t) # Null}}
       /\ \A p \in DOMAIN h.childrenMap : NoDuplicates(h.childrenMap[p])
       /\ \A id \in QueryIds :
             /\ hasChildren(h, id) <=> ~isLeaf(h, id)
             /\ hasChildren(h, id) <=> getChildren(h, id) # <<>>

\* a task with two children, one of them its own parent's parent (a cycle of
\* two), the other a leaf
MapsPairedWitness ==
    \E p \in TaskIds(tasks), c \in TaskIds(tasks) :
        /\ Len(getChildren(hierarchy, p)) = 2
        /\ c # p
        /\ c \in Range(getChildren(hierarchy, p))
        /\ getParent(hierarchy, p) = c
        /\ \E l \in Range(getChildren(hierarchy, p)) : isLeaf(hierarchy, l)

\* the forest with the isExpanded flag set on the nodes of `flagged` only
WithFlags(forest, flagged) ==
    [roots |-> forest.roots,
     nodes |-> [id \in DOMAIN forest.nodes |->
                   [forest.nodes[id] EXCEPT !.isExpanded = (id \in flagged)]]]

\* flat holds the ids emitted for the forest and the expanded-id set: a root is
\* emitted, any other node exactly when each of its proper ancestors is in the
\* set or flagged, and the emitted descendants of an emitted node are the
\* block that directly follows it; above[id] is the set of the proper
\* ancestors of id
EmitsUnderExpandedAncestors(flat, forest, expanded, above) ==
    LET open == {id \in DOMAIN forest.nodes : id \in expanded \/ forest.nodes[id].isExpanded}
    IN /\ NoDuplicates(flat)
       /\ \A id \in Range(forest.roots) : id \in Range(flat)
       /\ \A id \in DOMAIN forest.nodes \ Range(forest.roots) :
             id \in Range(flat) <=> above[id] \subseteq open
       /\ \A i \in 1..Len(flat) :
             LET below == {j \in 1..Len(flat) : flat[i] \in above[flat[j]]}
             IN below = (i + 1)..(i + Cardinality(below))

\* C24: flattenTaskTree emits a non-root node exactly when every proper
\* ancestor of it is expanded (its id in the expanded-id set, or its own flag
\* set), and the emitted descendants of a node are one block directly after
\* it; checked on the view's display sequence (every node flagged) and for the
\* same forest with no node flagged and with the roots alone flagged.
FlattenEmitsIffAncestorsExpanded ==
    LET above == [id \in TaskIds(tasks) |-> Ancestors(tasks, id)]
        unflagged == WithFlags(taskTree, {})
        rootsFlagged == WithFlags(taskTree, Range(taskTree.roots))
    IN /\ EmitsUnderExpandedAncestors(IdsOf(displayTasks), taskTree, expandedIds, above)
       /\ EmitsUnderExpandedAncestors(IdsOf(flattenTaskTree(unflagged, expandedIds)),
                                      unflagged, expandedIds, above)
       /\ EmitsUnderExpandedAncestors(IdsOf(flattenTaskTree(rootsFlagged, expandedIds)),
                                      rootsFlagged, expandedIds, above)

\* after a toggle, with no flag set: a node below an expanded root is emitted
\* and its own child, below a collapsed node, is not
FlattenEmitsWitness ==
    LET flat == IdsOf(flattenTaskTree(Unflagged(taskTree), expandedIds))
    IN \E a \in TaskIds(tasks), d \in TaskIds(tasks) :
          /\ ParentOf(tasks, d) = a
          /\ ParentOf(tasks, a) \in expandedIds
          /\ a \notin expandedIds
          /\ a \in Range(flat)
          /\ d \notin Range(flat)

\* two applied re-parentings that put each task under the other
Crossed(r1, r2) == r1[1] = r2[2] /\ r2[1] = r1[2]

\* the re-parenting r is the one in effect: no later one replaced its parent
InEffect(r) == TaskOf(tasks, r[1]).parent_task_id = r[2]

\* C25: validation is not atomic with mutation.  Every re-parenting that
\* canBeParent accepted against the snapshot of an acyclic collection is safe
\* on its own (the two ids differ, and the snapshot with it applied is
\* acyclic), yet once two accepted re-parentings that put each task under the
\* other are both applied (and in effect, neither replaced by a later one)
\* the collection has a parent cycle, and the engine still builds a forest
\* from it, without the tasks on the cycle.
RaceAdmitsCycle ==
    /\ Acyclic(requests.snapshot)
    /\ \A r \in requests.accepted :
          /\ r[1] # r[2]
          /\ Acyclic(SetParent(requests.snapshot, r[1], r[2]))
    /\ \A r1 \in requests.applied, r2 \in requests.applied :
          Crossed(r1, r2) /\ InEffect(r1) /\ InEffect(r2) =>
              /\ ~Acyclic(tasks)
              /\ {r1[1], r2[1]} \cap Range(ForestIds(buildTaskTree(tasks))) = {}

\* t1 under p1 and t2 under p2 with t1 = p2 and t2 = p1, both accepted on the
\* snapshot in which the two tasks were unrelated, both applied: a cycle
RaceWitness ==
    \E r1 \in requests.applied, r2 \in requests.applied :
        /\ Crossed(r1, r2)
        /\ r1[1] \notin Ancestors(requests.snapshot, r2[1])
        /\ r2[1] \notin Ancestors(requests.snapshot, r1[1])
        /\ canBeParent(r1[1], r1[2], requests.snapshot)
        /\ canBeParent(r2[1], r2[2], requests.snapshot)
        /\ r1[1] \in Ancestors(tasks, r1[1])

\* C26: on an acyclic collection getDescendantIds(id) lists exactly the
\* tasks that have id as a proper ancestor (along the written parent
\* references; for the id of a task these are its descendants), each once and
\* never id itself, and its length is getDescendantCount(id) of the Index.
ClosureAgreesWithCount ==
    \A id \in QueryIds :
        LET closure == getDescendantIds(id, tasks)
        IN /\ NoDuplicates(closure)
           /\ Range(closure) = RawDescendants(tasks, id)
           /\ id \in TaskIds(tasks) => Range(closure) = Descendants(tasks, id)
           /\ id \notin Range(closure)
           /\ Len(closure) = getDescendantCount(hierarchy, id)

\* a task with a child and a grandchild: the closure lists the two, the count is 2
ClosureWitness ==
    \E a \in TaskIds(tasks), c \in TaskIds(tasks), g \in TaskIds(tasks) :
        /\ ParentOf(tasks, g) = c
        /\ ParentOf(tasks, c) = a
        /\ getDescendantIds(a, tasks) = <<c, g>>
        /\ getDescendantCount(hierarchy, a) = 2

\* the ids of the subtree of the forest below and including the node id
SubtreeIds(forest, id) == Range(Walk(forest.nodes, <<id>>, 1))

\* C27: getRootParent returns null for an id of no task; for a task of an
\* acyclic collection it returns the task at the end of the task's parent
\* chain (the first one without a parent reference, or with one that names no
\* task; the task itself when it is such a task), which is in the root list
\* of buildTaskTree with the task in its subtree.
RootParentIsBuilderRoot ==
    /\ getRootParent(Ghost, tasks) = Null
    /\ getRootParent(Unknown, tasks) = Null
    /\ \A id \in TaskIds(tasks) :
          LET root == getRootParent(id, tasks)
          IN /\ root \in Range(tasks)
             /\ root.id \in {id} \cup Ancestors(tasks, id)
             /\ root.parent_task_id \notin TaskIds(tasks)
             /\ TaskOf(tasks, id).parent_task_id \notin TaskIds(tasks) => root = TaskOf(tasks, id)
             /\ root.id \in Range(taskTree.roots)
             /\ id \in SubtreeIds(taskTree, root.id)

\* a task two levels below a root whose own parent reference is dangling
RootParentWitness ==
    \E id \in TaskIds(tasks) :
        /\ ParentOf(tasks, id) # Null
        /\ getRootParent(id, tasks).id = ParentOf(tasks, ParentOf(tasks, id))
        /\ getRootParent(id, tasks).parent_task_id = Ghost

\* the task passes the status filter of the view
Passes(id) ==
    \/ statusFilter = "all"
    \/ statusFilter = "active" /\ statusOf[id] # "complete"
    \/ statusFilter = "complete" /\ statusOf[id] = "complete"

\* C28: in the view with a status filter the forest is built from the
\* filtered tasks only: no task that fails the filter is displayed, no task is
\* displayed twice, and a task that passes while its parent does not is in
\* the root list and displayed at depth 0; under every filter and every expand
\* state reached by toggleExpand.
FilteredForestOnly ==
    /\ taskTree = buildTaskTree(filteredTasks(tasks, statusOf, statusFilter))
    /\ DOMAIN taskTree.nodes = {id \in TaskIds(tasks) : Passes(id)}
    /\ \A id \in DisplayIds : Passes(id)
    /\ NoDuplicates(IdsOf(displayTasks))
    /\ \A id \in TaskIds(tasks) :
          (Passes(id) /\ ParentOf(tasks, id) # Null /\ ~Passes(ParentOf(tasks, id))) =>
              /\ id \in Range(taskTree.roots)
              /\ \E i \in 1..Len(displayTasks) :
                    displayTasks[i].id = id /\ displayTasks[i].depth = 0

\* under the 'active' filter, after a toggle: a complete task between an
\* active parent and an active child is left out, and the child is displayed
\* as a root
FilteredForestWitness ==
    /\ statusFilter = "active"
    /\ expandedIds # InitialExpanded(tasks)
    /\ \E c \in TaskIds(tasks) :
          /\ ParentOf(tasks, c) # Null
          /\ ParentOf(tasks, ParentOf(tasks, c)) # Null
          /\ Passes(c) /\ ~Passes(ParentOf(tasks, c))
          /\ Passes(ParentOf(tasks, ParentOf(tasks, c)))
          /\ c \in Range(taskTree.roots)
          /\ ParentOf(tasks, c) \notin DisplayIds

\* the task is on a cycle of parent references, or its parent chain leads to one
OnOrBelowCycle(ts, id) ==
    \E a \in {id} \cup RawUp(ts, id, Len(ts)) : a \in RawUp(ts, a, Len(ts))

\* C29: buildTaskTree returns on every input, cyclic and self-referencing
\* parent references included: what it returns is a finite forest in which no
\* task on a cycle, nor any task below one, is in the subtree of a root (and
\* every other task is).
BuilderSkipsCycles ==
    LET inForest == ForestIds(taskTree)
    IN /\ Len(inForest) <= Len(tasks)
       /\ \A id \in TaskIds(tasks) :
             OnOrBelowCycle(tasks, id) <=> id \notin Range(inForest)

\* a self-referencing task with a child, next to a root: the root is in the
\* forest, the other two are not
BuilderSkipsCyclesWitness ==
    \E a \in TaskIds(tasks), c \in TaskIds(tasks), r \in TaskIds(tasks) :
        /\ TaskOf(tasks, a).parent_task_id = a
        /\ c # a /\ TaskOf(tasks, c).parent_task_id = a
        /\ ForestIds(taskTree) = <<r>>

\* C30: buildTaskTree leaves its input as it was: the same tasks in the same
\* order, each with its own fields and values only; children, depth and
\* isExpanded are on the nodes the call allocated.
BuilderLeavesInput ==
    /\ tasks \in Collections(Len(tasks))
    /\ InputAfterBuild(tasks) = tasks
    /\ \A id \in DOMAIN taskTree.nodes :
          /\ taskTree.nodes[id].id = TaskOf(tasks, id).id
          /\ taskTree.nodes[id].parent_task_id = TaskOf(tasks, id).parent_task_id
          /\ taskTree.nodes[id].task_order = TaskOf(tasks, id).task_order

\* the call attached a child at depth 1 and sorted the roots against their
\* input order
BuilderLeavesInputWitness ==
    /\ \E id \in DOMAIN taskTree.nodes :
          taskTree.nodes[id].depth = 1 /\ id \in Range(taskTree.nodes[TaskOf(tasks, id).parent_task_id].children)
    /\ \E i \in 1..Len(taskTree.roots), j \in 1..Len(taskTree.roots) :
          i < j /\ taskTree.roots[i] > taskTree.roots[j]

====
